---- MODULE Spec2Model ----
(***************************************************************************)
(* Capture orchestration core of src-tauri/src/capture_manager.rs:         *)
(* the CaptureManager state machine (start_capture, stop_capture, status,  *)
(* set_options, configure_pipelines), the per-stream chunk buffers, the    *)
(* mpsc chunk channel and the chunk_consumer thread.                       *)
(*                                                                         *)
(* Callers are concurrent threads (CaptureManager is shared Tauri state).  *)
(* Every block that runs under the manager mutex without a blocking call   *)
(* in it is one atomic action; stop_capture holds the mutex across its     *)
(* three teardown calls and is therefore a sequence of actions that keep   *)
(* `lock` taken.                                                           *)
(***************************************************************************)
EXTENDS Integers, Sequences, FiniteSets, TLC

\* ------------------------------------------------------------------ bounds
NumCallers == 2          \* concurrent callers of the command surface
MaxSessions == 2         \* start calls that may pass the Idle check
MaxChunks == 2           \* chunks sent into one session's channel
MaxTime == 6000          \* milliseconds a single chunk buffer is observed

Threads == 1..NumCallers
Sessions == 1..MaxSessions
None == 0                \* Option::None for a stored session reference / free lock

\* -------------------------------------------------------- program constants
default_chunk_ms == 5000

Kinds == {"video", "system_audio", "mic"}
CaptureStates == {"Idle", "Starting", "Running", "Stopping"}

DefaultOptions ==
    [chunk_duration_ms |-> default_chunk_ms, capture_mic |-> FALSE,
     debug_save |-> FALSE, target |-> "FullDisplay"]

\* the CaptureOptions values callers pass to start_capture / set_options
OptionSet ==
    { DefaultOptions,
      [chunk_duration_ms |-> 500, capture_mic |-> TRUE,
       debug_save |-> TRUE, target |-> "Window"] }

\* CaptureState::is_active
\* (is_active_Fault: Starting left out of the match)
is_active_Fault(s) == s \in {"Running", "Stopping"}
is_active(s) == s \in {"Starting", "Running", "Stopping"}

\* ManagerState::default
ManagerState_default ==
    [status |-> "Idle",
     options |-> DefaultOptions,
     video_pipeline |-> None,
     video_chunk_buffer |-> None,
     system_audio_pipeline |-> None,
     system_audio_chunk_buffer |-> None,
     mic_pipeline |-> None,
     mic_chunk_buffer |-> None,
     chunk_sender |-> None]

\* ----------------------------------------------------------------- state
VARIABLES
    inner,        \* ManagerState behind CaptureManager.inner
    lock,         \* holder of the manager mutex across actions (None = free)
    GSTREAMER,    \* the OnceCell: TRUE once gst::init() has succeeded
    pc,           \* per caller: position inside the call it is executing
    opts,         \* per caller: the `options` argument of its start_capture
    sid,          \* per caller: the session its start_capture is building
    ret,          \* the most recent return of a call: the call and its value
    nextSid,      \* next session number (one per start that passes the check)
    pipeline,     \* per session and kind: state of the gst::Pipeline object
    buffer,       \* per session and kind: the chunk buffer's fields
    senders,      \* per session: live Sender handles of its channel
    consumer,     \* per session: state of the chunk_consumer thread
    queue,        \* per session: chunks buffered in the channel
    sent,         \* per session: chunks whose send returned Ok, in send order
    received,     \* per session: chunks the consumer loop has received
    err,          \* per caller: the error configure_pipelines returned
    stop_in_start \* history: some stop_capture acted while status was Starting

\* one chunk buffer observed on its own, with the clock its flushes depend on
VARIABLES
    cb,           \* the VideoChunkBuffer / AudioChunkBuffer behind its Mutex
    clock,        \* Instant::now() in milliseconds since the buffer was built
    feed,         \* the stream feeding cb: its kind, the options, the period
    out,          \* the chunk the most recent flush built, and where it went
    ids           \* history: the ids of the chunks cb's flushes built, in order

VARIABLE
    guard         \* per session and kind: the Mutex around the chunk buffer

VARIABLE
    stream        \* history: the bytes handle_sample read from the samples
                  \* delivered to cb, the bytes of the chunks it built, and
                  \* how many bytes had been read at the latest flush

vars == <<inner, lock, GSTREAMER, pc, opts, sid, ret, nextSid, pipeline,
          buffer, senders, consumer, queue, sent, received, err,
          stop_in_start, cb, clock, feed, out, ids, guard, stream>>

callVars == <<pc, opts, sid, ret, err>>
chanVars == <<consumer, queue, sent, received>>
sessVars == <<pipeline, buffer, senders, consumer, queue, sent, received>>
bufVars == <<cb, clock, feed, out, ids, stream>>

NoResult == [op |-> "none", val |-> "none"]
Ret(op, val) == [op |-> op, val |-> val]

\* CaptureOptions::chunk_duration, in milliseconds
\* (chunk_duration_Fault: the floor of 1000 left out)
chunk_duration_Fault(o) == o.chunk_duration_ms
chunk_duration(o) ==
    IF o.chunk_duration_ms >= 1000 THEN o.chunk_duration_ms ELSE 1000

\* VideoChunkBuffer::new_with_sender / AudioChunkBuffer::new_with_sender
\* (accum is the number of accumulated bytes)
new_with_sender(dur) == [chunk_duration |-> dur, id_counter |-> 0, accum |-> 0]

\* the value kept for a buffer that does not exist
NoBuffer == [chunk_duration |-> 0, id_counter |-> 0, accum |-> 0]

\* ---- values of the single chunk buffer
\* serde_json null / a metadata object (frames: the "frames" entry of an
\* audio chunk; a video object has no such entry and keeps 0)
JsonNull == [null |-> TRUE, frames |-> 0]
JsonObject(frames) == [null |-> FALSE, frames |-> frames]

\* Option<AudioFrameMetadata> / Option<VideoFrameMetadata>
NoMeta == [some |-> FALSE, frames |-> 0]
SomeMeta(frames) == [some |-> TRUE, frames |-> frames]

\* SystemTime::now().duration_since(UNIX_EPOCH).as_nanos() read when the
\* monotonic clock shows t: kept as the reading it was taken at (the count of
\* nanoseconds itself is a u128 and is never computed with)
unix_nanos(t) == [read_at |-> t]
NoTimestamp == [read_at |-> 0]

\* while no buffer is under observation
NoChunkBuffer ==
    [label |-> "none", chunk_duration |-> 0, debug_save |-> FALSE, chunk_start |-> 0,
     frames |-> 0, last_metadata |-> NoMeta, accum |-> << >>,
     start_ts_unix_nanos |-> NoTimestamp, id_counter |-> 0, sender |-> "None"]
NoFeed == [kind |-> "none", options |-> DefaultOptions, period |-> 0]
NoStream == [delivered |-> << >>, emitted |-> << >>, flushed_at |-> 0]
NoChunk ==
    [via |-> "none", id |-> 0, kind |-> "none",
     start_ts_unix_nanos |-> NoTimestamp,
     duration_ms |-> 0, metadata |-> JsonNull, data_len |-> 0,
     data |-> << >>]

\* the manager and its sessions after CaptureManager::default()
ManagerInit ==
    /\ inner = ManagerState_default
    /\ lock = None
    /\ GSTREAMER = FALSE
    /\ pc = [t \in Threads |-> "idle"]
    /\ opts = [t \in Threads |-> DefaultOptions]
    /\ sid = [t \in Threads |-> None]
    /\ ret = NoResult
    /\ nextSid = 1
    /\ pipeline = [s \in Sessions |-> [k \in Kinds |-> "none"]]
    /\ buffer = [s \in Sessions |-> [k \in Kinds |-> NoBuffer]]
    /\ senders = [s \in Sessions |-> {}]
    /\ consumer = [s \in Sessions |-> "none"]
    /\ queue = [s \in Sessions |-> << >>]
    /\ sent = [s \in Sessions |-> << >>]
    /\ received = [s \in Sessions |-> << >>]
    /\ err = [t \in Threads |-> "none"]
    /\ stop_in_start = FALSE
    /\ guard = [s \in Sessions |-> [k \in Kinds |-> "free"]]

\* CaptureManager::default(): no session exists, no buffer is observed
Init ==
    /\ ManagerInit
    /\ cb = NoChunkBuffer
    /\ clock = 0
    /\ feed = NoFeed
    /\ out = NoChunk
    /\ ids = << >>
    /\ stream = NoStream

\* ------------------------------------------------------------ start_capture
\* the first critical section of start_capture: the new ManagerState
\* (start_capture_check_Fault: options stored before the check)
start_capture_check_Fault(st, o) ==
    IF is_active(st.status)
    THEN [st EXCEPT !.options = o]
    ELSE [st EXCEPT !.status = "Starting", !.options = o]
start_capture_check(st, o) ==
    IF is_active(st.status)
    THEN st
    ELSE [st EXCEPT !.status = "Starting", !.options = o]

\* start_capture up to the end of its first critical section.
\* ensure_gstreamer_initialized fails only while the OnceCell is empty.
StartCapture(t, o) ==
    /\ pc[t] = "idle"
    /\ lock = None
    /\ \/ /\ ~GSTREAMER
          /\ ret' = Ret("start", "InitFailed")
          /\ UNCHANGED <<inner, GSTREAMER, pc, opts, sid, nextSid>>
       \/ /\ GSTREAMER' = TRUE
          /\ inner' = start_capture_check(inner, o)
          /\ IF is_active(inner.status)
             THEN /\ ret' = Ret("start", "AlreadyActive")
                  /\ UNCHANGED <<pc, opts, sid, nextSid>>
             ELSE /\ nextSid <= MaxSessions
                  /\ pc' = [pc EXCEPT ![t] = "spawn"]
                  /\ opts' = [opts EXCEPT ![t] = o]
                  /\ sid' = [sid EXCEPT ![t] = nextSid]
                  /\ nextSid' = nextSid + 1
                  /\ UNCHANGED ret
    /\ UNCHANGED <<lock, err, stop_in_start>>
    /\ UNCHANGED sessVars
    /\ UNCHANGED bufVars
    /\ UNCHANGED guard

\* ------------------------------------------------------ configure_pipelines
BuildPC == [video |-> "build_video", system_audio |-> "build_system_audio",
            mic |-> "build_mic"]
AfterBuild == [video |-> "build_system_audio", system_audio |-> "build_mic",
               mic |-> "start_video"]
StartPC == [video |-> "start_video", system_audio |-> "start_system_audio",
            mic |-> "start_mic"]
\* (AfterStart_Fault: the microphone activated before the system audio)
AfterStart_Fault == [video |-> "start_mic", system_audio |-> "store",
                     mic |-> "start_system_audio"]
AfterStart == [video |-> "start_system_audio", system_audio |-> "start_mic",
               mic |-> "store"]
ConfigurePCs ==
    {"spawn", "build_video", "build_system_audio", "build_mic",
     "start_video", "start_system_audio", "start_mic", "store"}

\* pipeline.set_state(gst::State::Null) on the pipelines ks of one session
set_state_Null(ps, ks) ==
    [k \in Kinds |-> IF k \in ks /\ ps[k] # "none" THEN "Null" ELSE ps[k]]

\* the handles going out of scope: a pipeline in the NULL state is freed,
\* one disposed of while PLAYING is kept alive by GStreamer and keeps playing
drop_handles(ps) ==
    [k \in Kinds |-> IF ps[k] = "Null" THEN "freed" ELSE ps[k]]

\* the pipelines the error path of a failing step sets to Null
\* (rollback_set_Fault: the system_audio path forgets the video pipeline)
rollback_set_Fault(stage) ==
    CASE stage = "start_video" -> {"video"}
      [] stage = "start_system_audio" -> {"system_audio"}
      [] stage = "start_mic" -> Kinds
      [] OTHER -> {}
rollback_set(stage) ==
    CASE stage = "start_video" -> {"video"}
      [] stage = "start_system_audio" -> {"video", "system_audio"}
      [] stage = "start_mic" -> Kinds
      [] OTHER -> {}

\* the error return of configure_pipelines from `stage`: the error path's
\* set_state(Null) calls, then every local (handles, tx and its clones) drops
ConfigureFails(t, stage, e) ==
    LET s == sid[t]
        ps == drop_handles(set_state_Null(pipeline[s], rollback_set(stage)))
    IN /\ \A j \in rollback_set(stage) : guard[s][j] = "free"
       /\ pipeline' = [pipeline EXCEPT ![s] = ps]
       /\ buffer' = [buffer EXCEPT ![s] =
              [k \in Kinds |-> IF ps[k] = "Playing" THEN buffer[s][k] ELSE NoBuffer]]
       /\ senders' = [senders EXCEPT ![s] = {k \in Kinds : ps[k] = "Playing"}]
       /\ pc' = [pc EXCEPT ![t] = "rollback"]
       /\ err' = [err EXCEPT ![t] = e]

\* mpsc::channel, the chunk_consumer spawn and the three tx.clone()
SpawnConsumer(t) ==
    /\ pc[t] = "spawn"
    /\ \/ /\ consumer' = [consumer EXCEPT ![sid[t]] = "running"]
          /\ senders' = [senders EXCEPT ![sid[t]] = {"tx"} \cup Kinds]
          /\ pc' = [pc EXCEPT ![t] = "build_video"]
          /\ UNCHANGED err
       \/ /\ pc' = [pc EXCEPT ![t] = "rollback"]
          /\ err' = [err EXCEPT ![t] = "SpawnFailed"]
          /\ UNCHANGED <<consumer, senders>>
    /\ UNCHANGED <<inner, lock, GSTREAMER, opts, sid, ret, nextSid, pipeline,
                   buffer, queue, sent, received, stop_in_start>>
    /\ UNCHANGED bufVars
    /\ UNCHANGED guard

\* build_video_pipeline / build_system_audio_pipeline / build_mic_audio_pipeline
Build(t, k) ==
    /\ pc[t] = BuildPC[k]
    /\ IF k = "mic" /\ ~opts[t].capture_mic
       THEN /\ pc' = [pc EXCEPT ![t] = AfterBuild[k]]
            /\ UNCHANGED <<pipeline, buffer, senders, err>>
       ELSE \/ /\ pipeline' = [pipeline EXCEPT ![sid[t]][k] = "Null"]
               /\ buffer' = [buffer EXCEPT ![sid[t]][k] =
                                new_with_sender(chunk_duration(opts[t]))]
               /\ pc' = [pc EXCEPT ![t] = AfterBuild[k]]
               /\ UNCHANGED <<senders, err>>
            \/ ConfigureFails(t, BuildPC[k], "MissingCapability")
    /\ UNCHANGED <<inner, lock, GSTREAMER, opts, sid, ret, nextSid,
                   stop_in_start>>
    /\ UNCHANGED chanVars
    /\ UNCHANGED bufVars
    /\ UNCHANGED guard

\* start_pipeline and the error path that follows it
Start(t, k) ==
    /\ pc[t] = StartPC[k]
    /\ IF k = "mic" /\ ~opts[t].capture_mic
       THEN /\ pc' = [pc EXCEPT ![t] = AfterStart[k]]
            /\ UNCHANGED <<pipeline, buffer, senders, err>>
       ELSE \/ /\ pipeline' = [pipeline EXCEPT ![sid[t]][k] = "Playing"]
               /\ pc' = [pc EXCEPT ![t] = AfterStart[k]]
               /\ UNCHANGED <<buffer, senders, err>>
            \/ ConfigureFails(t, StartPC[k], "PipelineStartFailed")
    /\ UNCHANGED <<inner, lock, GSTREAMER, opts, sid, ret, nextSid,
                   stop_in_start>>
    /\ UNCHANGED chanVars
    /\ UNCHANGED bufVars
    /\ UNCHANGED guard

\* the last critical section of configure_pipelines: the new ManagerState
store_handles(st, s, mic) ==
    [st EXCEPT !.video_pipeline = s,
               !.video_chunk_buffer = s,
               !.system_audio_pipeline = s,
               !.system_audio_chunk_buffer = s,
               !.mic_pipeline = IF mic THEN s ELSE None,
               !.mic_chunk_buffer = IF mic THEN s ELSE None,
               !.chunk_sender = s]

\* The assignments drop the values they replace: a replaced pipeline is still
\* PLAYING and stays so, the replaced Sender is dropped. tx moves into the
\* manager; the unused tx_clone_m drops at the return.
Store(t) ==
    /\ pc[t] = "store"
    /\ lock = None
    /\ LET s == sid[t]
           old == inner.chunk_sender
           mine == IF opts[t].capture_mic THEN senders[s] ELSE senders[s] \ {"mic"}
       IN /\ inner' = store_handles(inner, s, opts[t].capture_mic)
          /\ senders' = [x \in Sessions |->
                 IF x = s THEN mine
                 ELSE IF x = old THEN senders[x] \ {"tx"}
                 ELSE senders[x]]
    /\ pc' = [pc EXCEPT ![t] = "set_running"]
    /\ UNCHANGED <<lock, GSTREAMER, opts, sid, ret, nextSid, pipeline, buffer,
                   err, stop_in_start>>
    /\ UNCHANGED chanVars
    /\ UNCHANGED bufVars
    /\ UNCHANGED guard

\* the locals of start_capture go out of scope at its return
EndCall(t) ==
    /\ opts' = [opts EXCEPT ![t] = DefaultOptions]
    /\ sid' = [sid EXCEPT ![t] = None]
    /\ err' = [err EXCEPT ![t] = "none"]

\* start_capture after configure_pipelines returned Ok
SetRunning(t) ==
    /\ pc[t] = "set_running"
    /\ lock = None
    /\ inner' = [inner EXCEPT !.status = "Running"]
    /\ pc' = [pc EXCEPT ![t] = "idle"]
    /\ ret' = Ret("start", "Ok")
    /\ EndCall(t)
    /\ UNCHANGED <<lock, GSTREAMER, nextSid, stop_in_start>>
    /\ UNCHANGED sessVars
    /\ UNCHANGED bufVars
    /\ UNCHANGED guard

\* start_capture after configure_pipelines returned Err
\* (Rollback_Fault: the options put back to the default on the error path)
Rollback_Fault(t) ==
    /\ pc[t] = "rollback"
    /\ lock = None
    /\ inner' = [inner EXCEPT !.status = "Idle", !.options = DefaultOptions]
    /\ pc' = [pc EXCEPT ![t] = "idle"]
    /\ ret' = Ret("start", err[t])
    /\ EndCall(t)
    /\ UNCHANGED <<lock, GSTREAMER, nextSid, stop_in_start>>
    /\ UNCHANGED sessVars
    /\ UNCHANGED bufVars
    /\ UNCHANGED guard
Rollback(t) ==
    /\ pc[t] = "rollback"
    /\ lock = None
    /\ inner' = [inner EXCEPT !.status = "Idle"]
    /\ pc' = [pc EXCEPT ![t] = "idle"]
    /\ ret' = Ret("start", err[t])
    /\ EndCall(t)
    /\ UNCHANGED <<lock, GSTREAMER, nextSid, stop_in_start>>
    /\ UNCHANGED sessVars
    /\ UNCHANGED bufVars
    /\ UNCHANGED guard

\* ------------------------------------------------------------- stop_capture
PipelineField == [video |-> "video_pipeline",
                  system_audio |-> "system_audio_pipeline",
                  mic |-> "mic_pipeline"]
BufferField == [video |-> "video_chunk_buffer",
                system_audio |-> "system_audio_chunk_buffer",
                mic |-> "mic_chunk_buffer"]
TeardownPC == [video |-> "teardown_video",
               system_audio |-> "teardown_system_audio",
               mic |-> "teardown_mic"]
AfterTeardown == [video |-> "teardown_system_audio",
                  system_audio |-> "teardown_mic",
                  mic |-> "stop_finish"]
StopPCs == {"teardown_video", "teardown_system_audio", "teardown_mic",
            "stop_finish"}

\* the early return of stop_capture: TRUE when the call returns at once
\* (stop_returns_early_Fault: the early return left out)
stop_returns_early_Fault(st) == FALSE
stop_returns_early(st) == ~is_active(st.status)

\* stop_capture from the lock to `inner.status = Stopping`; the guard is
\* kept (lock' = t) until the function returns
StopCapture(t) ==
    /\ pc[t] = "idle"
    /\ lock = None
    /\ IF stop_returns_early(inner)
       THEN /\ ret' = Ret("stop", "Ok")
            /\ UNCHANGED <<inner, lock, pc, stop_in_start>>
       ELSE /\ inner' = [inner EXCEPT !.status = "Stopping"]
            /\ lock' = t
            /\ pc' = [pc EXCEPT ![t] = "teardown_video"]
            /\ UNCHANGED ret
            /\ stop_in_start' = (stop_in_start \/ inner.status = "Starting")
    /\ UNCHANGED <<GSTREAMER, opts, sid, nextSid, err>>
    /\ UNCHANGED sessVars
    /\ UNCHANGED bufVars
    /\ UNCHANGED guard

\* teardown_pipeline(p): set_state(Null), its result discarded, then p drops
teardown_pipeline(ps, k) == drop_handles(set_state_Null(ps, {k}))

\* Self::teardown_pipeline(inner.<k>_pipeline.take())
\* (set_state(Null) returns once the streaming thread has left its callback)
Teardown(t, k) ==
    /\ pc[t] = TeardownPC[k]
    /\ lock = t
    /\ LET p == inner[PipelineField[k]]
       IN /\ p # None => guard[p][k] = "free"
          /\ inner' = [inner EXCEPT ![PipelineField[k]] = None]
          /\ IF p = None
             THEN UNCHANGED pipeline
             ELSE pipeline' = [pipeline EXCEPT ![p] = teardown_pipeline(pipeline[p], k)]
    /\ pc' = [pc EXCEPT ![t] = AfterTeardown[k]]
    /\ UNCHANGED <<lock, GSTREAMER, opts, sid, ret, nextSid, buffer, senders,
                   err, stop_in_start>>
    /\ UNCHANGED chanVars
    /\ UNCHANGED bufVars
    /\ UNCHANGED guard

\* the end of stop_capture: the ManagerState it leaves
stop_capture_finish(st) ==
    [st EXCEPT !.video_chunk_buffer = None,
               !.system_audio_chunk_buffer = None,
               !.mic_chunk_buffer = None,
               !.status = "Idle"]

\* A buffer whose pipeline is freed loses its last owner here, and its Sender
\* clone with it. inner.chunk_sender is not assigned.
StopFinish(t) ==
    /\ pc[t] = "stop_finish"
    /\ lock = t
    /\ inner' = stop_capture_finish(inner)
    /\ LET gone(s) == {k \in Kinds : /\ inner[BufferField[k]] = s
                                     /\ pipeline[s][k] = "freed"}
       IN /\ senders' = [s \in Sessions |-> senders[s] \ gone(s)]
          /\ buffer' = [s \in Sessions |-> [k \in Kinds |->
                            IF k \in gone(s) THEN NoBuffer ELSE buffer[s][k]]]
    /\ lock' = None
    /\ pc' = [pc EXCEPT ![t] = "idle"]
    /\ ret' = Ret("stop", "Ok")
    /\ UNCHANGED <<GSTREAMER, opts, sid, nextSid, pipeline, err, stop_in_start>>
    /\ UNCHANGED chanVars
    /\ UNCHANGED bufVars
    /\ UNCHANGED guard

\* ------------------------------------------------------ status, set_options
Status(t) ==
    /\ pc[t] = "idle"
    /\ lock = None
    /\ ret' = Ret("status", inner.status)
    /\ UNCHANGED <<inner, lock, GSTREAMER, pc, opts, sid, nextSid, err,
                   stop_in_start>>
    /\ UNCHANGED sessVars
    /\ UNCHANGED bufVars
    /\ UNCHANGED guard

\* set_options: the new ManagerState
\* (set_options_Fault: only Running rejected)
set_options_Fault(st, o) ==
    IF st.status = "Running" THEN st ELSE [st EXCEPT !.options = o]
set_options(st, o) ==
    IF is_active(st.status) THEN st ELSE [st EXCEPT !.options = o]

SetOptions(t, o) ==
    /\ pc[t] = "idle"
    /\ lock = None
    /\ inner' = set_options(inner, o)
    /\ ret' = Ret("set_options", IF is_active(inner.status) THEN "CaptureActive" ELSE "Ok")
    /\ UNCHANGED <<lock, GSTREAMER, pc, opts, sid, nextSid, err, stop_in_start>>
    /\ UNCHANGED sessVars
    /\ UNCHANGED bufVars
    /\ UNCHANGED guard

\* ------------------------------------------------------------ chunk buffers
\* flush: the chunk it builds (data_len = accum.len()) ...
flush_chunk(buf, k) ==
    [id |-> buf.id_counter, kind |-> k, duration_ms |-> buf.chunk_duration,
     data_len |-> buf.accum]
\* ... and the buffer it leaves (id_counter += 1, mem::take(&mut accum))
flush(buf) == [buf EXCEPT !.id_counter = buf.id_counter + 1, !.accum = 0]

\* mpsc::Sender::send: Ok while the Receiver is alive
send_ok(s) == consumer[s] = "running"

\* guard.handle_sample(&sample) for the buffer of pipeline k of session s:
\* handle_sample appends the n bytes of the sample and flushes when
\* chunk_start.elapsed() >= chunk_duration (`elapsed`).
handle_sample_call(s, k, n, elapsed) ==
    /\ pipeline[s][k] = "Playing"
    /\ LET b == [buffer[s][k] EXCEPT !.accum = buffer[s][k].accum + n]
       IN IF elapsed
          THEN /\ b.id_counter < MaxChunks
               /\ Len(sent[s]) < MaxChunks
               /\ buffer' = [buffer EXCEPT ![s][k] = flush(b)]
               /\ IF k \in senders[s] /\ send_ok(s)
                  THEN /\ queue' = [queue EXCEPT ![s] = Append(queue[s], flush_chunk(b, k))]
                       /\ sent' = [sent EXCEPT ![s] = Append(sent[s], flush_chunk(b, k))]
                  ELSE UNCHANGED <<queue, sent>>
          ELSE /\ buffer' = [buffer EXCEPT ![s][k] = b]
               /\ UNCHANGED <<queue, sent>>
    /\ UNCHANGED <<inner, lock, GSTREAMER, nextSid, pipeline, senders, consumer,
                   received, stop_in_start>>
    /\ UNCHANGED callVars
    /\ UNCHANGED bufVars

\* the mutexes a new_sample callback locks: the chunk buffer's, never the
\* manager's
\* (new_sample_locks_Fault: handle_sample also locks the manager)
new_sample_locks_Fault == {"chunk_buffer", "inner"}
new_sample_locks == {"chunk_buffer"}

\* the callback can have every mutex it locks besides the buffer's
other_locks_free == "inner" \in new_sample_locks => lock = None

\* The new_sample callback of the appsink of pipeline k of session s as one
\* step: the buffer's mutex taken, handle_sample, the mutex released.
HandleSample(s, k, n, elapsed) ==
    /\ guard[s][k] = "free"
    /\ other_locks_free
    /\ handle_sample_call(s, k, n, elapsed)
    /\ UNCHANGED guard

\* set_state(Null) has been called on the pipeline by a stop_capture: its
\* pads are flushing and the streaming thread starts no further callback
set_state_Null_called(s, k) ==
    \E t \in Threads : pc[t] = TeardownPC[k] /\ inner[PipelineField[k]] = s

\* The same callback in two steps. First pull_sample and
\* chunk_buffer_clone.lock() ...
LockBuffer(s, k) ==
    /\ pipeline[s][k] = "Playing"
    /\ ~set_state_Null_called(s, k)
    /\ guard[s][k] = "free"
    /\ guard' = [guard EXCEPT ![s][k] = "held"]
    /\ UNCHANGED <<inner, lock, GSTREAMER, nextSid, stop_in_start>>
    /\ UNCHANGED callVars
    /\ UNCHANGED sessVars
    /\ UNCHANGED bufVars

\* ... then handle_sample under the guard, which drops at the return
HandleSampleLocked(s, k, elapsed) ==
    /\ guard[s][k] = "held"
    /\ other_locks_free
    /\ handle_sample_call(s, k, 0, elapsed)
    /\ guard' = [guard EXCEPT ![s][k] = "free"]

\* ----------------------------------------------------------- chunk_consumer
\* Receiver::recv of `for chunk in rx` fails, ending the loop, when every
\* Sender is dropped and the channel is empty
\* (rx_disconnected_Fault: the buffered chunks not looked at)
rx_disconnected_Fault(s) == senders[s] = {}
rx_disconnected(s) == senders[s] = {} /\ queue[s] = << >>

\* one iteration of `for chunk in rx`: recv takes the oldest chunk, the body
\* logs it or writes the debug files
ConsumerRecv(s) ==
    /\ consumer[s] = "running"
    /\ queue[s] # << >>
    /\ received' = [received EXCEPT ![s] = Append(received[s], Head(queue[s]))]
    /\ queue' = [queue EXCEPT ![s] = Tail(queue[s])]
    /\ UNCHANGED <<inner, lock, GSTREAMER, nextSid, pipeline, buffer, senders,
                   consumer, sent, stop_in_start>>
    /\ UNCHANGED callVars
    /\ UNCHANGED bufVars
    /\ UNCHANGED guard

\* the loop ends and the thread returns, dropping rx
ConsumerExit(s) ==
    /\ consumer[s] = "running"
    /\ rx_disconnected(s)
    /\ consumer' = [consumer EXCEPT ![s] = "exited"]
    /\ UNCHANGED <<inner, lock, GSTREAMER, nextSid, pipeline, buffer, senders,
                   queue, sent, received, stop_in_start>>
    /\ UNCHANGED callVars
    /\ UNCHANGED bufVars
    /\ UNCHANGED guard

\* -------------------------------------------------- one chunk buffer in time
\* The fields of VideoChunkBuffer and AudioChunkBuffer in one record: label
\* ("video" for the video buffer, whose flush writes that literal), frames
\* (frames_in_chunk / frames_accumulated), last_metadata (audio only), accum
\* (the bytes in the Vec), sender ("None", or a Sender whose
\* Receiver is alive, "Open", or dropped, "Disconnected").
SenderSet == {"None", "Open", "Disconnected"}

\* n bytes of one value
Zeros(n) == [i \in 1..n |-> 0]

\* a gst::Sample as the buffers read it: whether it carries a buffer and
\* with which bytes, whether its caps parse, and the bytes per frame they give
SampleSet ==
    {[buffer |-> FALSE, data |-> Zeros(0), caps |-> TRUE, bpf |-> 4],
     [buffer |-> TRUE, data |-> Zeros(0), caps |-> TRUE, bpf |-> 4],
     [buffer |-> TRUE, data |-> Zeros(4), caps |-> TRUE, bpf |-> 4],
     [buffer |-> TRUE, data |-> Zeros(8), caps |-> TRUE, bpf |-> 4],
     [buffer |-> TRUE, data |-> Zeros(8), caps |-> TRUE, bpf |-> 0],
     [buffer |-> TRUE, data |-> Zeros(8), caps |-> FALSE, bpf |-> 4]}

\* the periods, in milliseconds, at which a stream delivers its samples
Periods == {500, 750, 1500}

\* the bytes `self.accum.extend_from_slice(map.as_slice())` appends
sample_bytes(smp) == IF smp.buffer THEN smp.data ELSE << >>

VideoFrameMetadata_from_sample(smp) ==
    IF smp.caps THEN SomeMeta(0) ELSE NoMeta

AudioFrameMetadata_from_sample(smp) ==
    IF smp.caps /\ smp.buffer /\ smp.bpf # 0
    THEN SomeMeta(Len(smp.data) \div smp.bpf)
    ELSE NoMeta

VideoChunkBuffer_new_with_sender(dur, debug_save, sender, t) ==
    [label |-> "video", chunk_duration |-> dur, debug_save |-> debug_save,
     chunk_start |-> t, frames |-> 0, last_metadata |-> NoMeta, accum |-> << >>,
     start_ts_unix_nanos |-> unix_nanos(t), id_counter |-> 0, sender |-> sender]

AudioChunkBuffer_new_with_sender(label, dur, debug_save, sender, t) ==
    [label |-> label, chunk_duration |-> dur, debug_save |-> debug_save,
     chunk_start |-> t, frames |-> 0, last_metadata |-> NoMeta, accum |-> << >>,
     start_ts_unix_nanos |-> unix_nanos(t), id_counter |-> 0, sender |-> sender]

\* `let _ = sender.send(chunk)`: Ok while the Receiver is alive, else Err,
\* which is discarded: the chunk is dropped
sender_send(sender) == IF sender = "Open" THEN "sent" ELSE "dropped"

\* where the video flush hands its chunk
video_dispatch(b) ==
    IF b.sender # "None" THEN sender_send(b.sender) ELSE "printed"

\* where the audio flush hands its chunk
audio_dispatch(b) ==
    IF b.sender # "None" THEN sender_send(b.sender)
    ELSE IF b.debug_save THEN "discarded" ELSE "printed"

\* VideoChunkBuffer::flush: the CapturedChunk it builds from the buffer as
\* handle_sample left it and from the sample that triggered the flush;
\* data_len is read before mem::take empties accum
\* (video_chunk_Fault: data_len read after accum was taken)
video_chunk_Fault(b, smp) ==
    [via |-> video_dispatch(b),
     id |-> b.id_counter,
     kind |-> "video",
     start_ts_unix_nanos |-> b.start_ts_unix_nanos,
     duration_ms |-> b.chunk_duration,
     metadata |-> IF VideoFrameMetadata_from_sample(smp).some
                  THEN JsonObject(0) ELSE JsonNull,
     data_len |-> 0,
     data |-> b.accum]
video_chunk(b, smp) ==
    [via |-> video_dispatch(b),
     id |-> b.id_counter,
     kind |-> "video",
     start_ts_unix_nanos |-> b.start_ts_unix_nanos,
     duration_ms |-> b.chunk_duration,
     metadata |-> IF VideoFrameMetadata_from_sample(smp).some
                  THEN JsonObject(0) ELSE JsonNull,
     data_len |-> Len(b.accum),
     data |-> b.accum]

\* VideoChunkBuffer::flush at clock value t: the buffer it leaves
\* (video_flush_Fault: chunk_start advanced by the chunk duration)
video_flush_Fault(b, t) ==
    [b EXCEPT !.id_counter = b.id_counter + 1,
              !.accum = << >>,
              !.frames = 0,
              !.chunk_start = b.chunk_start + b.chunk_duration,
              !.start_ts_unix_nanos = unix_nanos(t)]
video_flush(b, t) ==
    [b EXCEPT !.id_counter = b.id_counter + 1,
              !.accum = << >>,
              !.frames = 0,
              !.chunk_start = t,
              !.start_ts_unix_nanos = unix_nanos(t)]

\* VideoChunkBuffer::handle_sample at clock value t: the buffer it leaves
\* and the chunks it built (none or one)
\* (video_handle_sample_Fault: a chunk without bytes is not built)
video_handle_sample_Fault(b, smp, t) ==
    LET a == [b EXCEPT !.accum = b.accum \o sample_bytes(smp),
                       !.frames = b.frames + 1]
    IN IF t - a.chunk_start >= a.chunk_duration
       THEN [buf |-> IF a.accum = << >>
                     THEN [video_flush(a, t) EXCEPT !.id_counter = a.id_counter]
                     ELSE video_flush(a, t),
             chunks |-> IF a.accum = << >> THEN << >> ELSE <<video_chunk(a, smp)>>]
       ELSE [buf |-> a, chunks |-> << >>]
video_handle_sample(b, smp, t) ==
    LET a == [b EXCEPT !.accum = b.accum \o sample_bytes(smp),
                       !.frames = b.frames + 1]
    IN IF t - a.chunk_start >= a.chunk_duration
       THEN [buf |-> video_flush(a, t), chunks |-> <<video_chunk(a, smp)>>]
       ELSE [buf |-> a, chunks |-> << >>]

\* AudioChunkBuffer::flush: the CapturedChunk it builds
audio_chunk(b) ==
    [via |-> audio_dispatch(b),
     id |-> b.id_counter,
     kind |-> b.label,
     start_ts_unix_nanos |-> b.start_ts_unix_nanos,
     duration_ms |-> b.chunk_duration,
     metadata |-> IF b.last_metadata.some
                  THEN JsonObject(b.last_metadata.frames) ELSE JsonNull,
     data_len |-> Len(b.accum),
     data |-> b.accum]

\* AudioChunkBuffer::flush at clock value t: the buffer it leaves
\* (audio_flush_Fault: the id advanced only when the chunk was sent)
audio_flush_Fault(b, t) ==
    [b EXCEPT !.id_counter = IF b.sender = "Open" THEN b.id_counter + 1
                             ELSE b.id_counter,
              !.last_metadata = NoMeta,
              !.accum = << >>,
              !.frames = 0,
              !.chunk_start = t,
              !.start_ts_unix_nanos = unix_nanos(t)]
audio_flush(b, t) ==
    [b EXCEPT !.id_counter = b.id_counter + 1,
              !.last_metadata = NoMeta,
              !.accum = << >>,
              !.frames = 0,
              !.chunk_start = t,
              !.start_ts_unix_nanos = unix_nanos(t)]

\* AudioChunkBuffer::handle_sample at clock value t
\* (audio_handle_sample_Fault: a failed send leaves the flush before the
\* resets)
audio_handle_sample_Fault(b, smp, t) ==
    LET meta == AudioFrameMetadata_from_sample(smp)
        a == [b EXCEPT !.accum = b.accum \o sample_bytes(smp),
                       !.frames = IF meta.some THEN b.frames + meta.frames
                                  ELSE b.frames,
                       !.last_metadata = IF meta.some THEN meta
                                         ELSE b.last_metadata]
    IN IF t - a.chunk_start >= a.chunk_duration
       THEN [buf |-> IF a.sender = "Disconnected"
                     THEN [a EXCEPT !.id_counter = a.id_counter + 1]
                     ELSE audio_flush(a, t),
             chunks |-> <<audio_chunk(a)>>]
       ELSE [buf |-> a, chunks |-> << >>]
audio_handle_sample(b, smp, t) ==
    LET meta == AudioFrameMetadata_from_sample(smp)
        a == [b EXCEPT !.accum = b.accum \o sample_bytes(smp),
                       !.frames = IF meta.some THEN b.frames + meta.frames
                                  ELSE b.frames,
                       !.last_metadata = IF meta.some THEN meta
                                         ELSE b.last_metadata]
    IN IF t - a.chunk_start >= a.chunk_duration
       THEN [buf |-> audio_flush(a, t), chunks |-> <<audio_chunk(a)>>]
       ELSE [buf |-> a, chunks |-> << >>]

\* what a call of handle_sample leaves in the observed buffer
Delivered(r) ==
    /\ cb' = r.buf
    /\ out' = IF r.chunks = << >> THEN out ELSE r.chunks[Len(r.chunks)]
    /\ ids' = ids \o [i \in 1..Len(r.chunks) |-> r.chunks[i].id]

\* the new_sample callback of the video appsink, one period after the
\* previous delivery: pull_sample, the buffer's lock, handle_sample
NewSampleVideo(smp) ==
    /\ feed.kind = "video"
    /\ clock + feed.period <= MaxTime
    /\ clock' = clock + feed.period
    /\ Delivered(video_handle_sample(cb, smp, clock + feed.period))
    /\ UNCHANGED <<stream, feed, inner, lock, GSTREAMER, nextSid, stop_in_start>>
    /\ UNCHANGED callVars
    /\ UNCHANGED sessVars
    /\ UNCHANGED guard

\* the new_sample callback of an audio appsink (system_audio or mic)
NewSampleAudio(smp) ==
    /\ feed.kind \in {"system_audio", "mic"}
    /\ clock + feed.period <= MaxTime
    /\ clock' = clock + feed.period
    /\ Delivered(audio_handle_sample(cb, smp, clock + feed.period))
    /\ UNCHANGED <<stream, feed, inner, lock, GSTREAMER, nextSid, stop_in_start>>
    /\ UNCHANGED callVars
    /\ UNCHANGED sessVars
    /\ UNCHANGED guard

\* ---- one stream followed byte by byte
\* The samples a stream can deliver next when n of its bytes were read so
\* far: a sample without a readable buffer, and samples of one and of two
\* bytes. Each byte is its own position in the stream, so that a byte
\* emitted twice, out of order or not at all shows in the data.
StreamSamples(n) ==
    {[buffer |-> FALSE, data |-> << >>, caps |-> TRUE, bpf |-> 4],
     [buffer |-> TRUE, data |-> <<n + 1>>, caps |-> TRUE, bpf |-> 1],
     [buffer |-> TRUE, data |-> <<n + 1, n + 2>>, caps |-> FALSE, bpf |-> 1]}

\* the data of the chunks a call of handle_sample built, in order
chunk_bytes(r) == IF r.chunks = << >> THEN << >> ELSE r.chunks[1].data

\* the history of a call of handle_sample
Recorded(smp, r) ==
    stream' = [delivered |-> stream.delivered \o sample_bytes(smp),
               emitted |-> stream.emitted \o chunk_bytes(r),
               flushed_at |-> IF r.chunks = << >> THEN stream.flushed_at
                              ELSE Len(stream.delivered \o sample_bytes(smp))]

\* the new_sample callback of the video appsink, with the history kept
PushVideo(smp) ==
    /\ feed.kind = "video"
    /\ clock + feed.period <= MaxTime
    /\ clock' = clock + feed.period
    /\ Delivered(video_handle_sample(cb, smp, clock + feed.period))
    /\ Recorded(smp, video_handle_sample(cb, smp, clock + feed.period))
    /\ UNCHANGED <<feed, inner, lock, GSTREAMER, nextSid, stop_in_start>>
    /\ UNCHANGED callVars
    /\ UNCHANGED sessVars
    /\ UNCHANGED guard

\* the new_sample callback of an audio appsink, with the history kept
PushAudio(smp) ==
    /\ feed.kind \in {"system_audio", "mic"}
    /\ clock + feed.period <= MaxTime
    /\ clock' = clock + feed.period
    /\ Delivered(audio_handle_sample(cb, smp, clock + feed.period))
    /\ Recorded(smp, audio_handle_sample(cb, smp, clock + feed.period))
    /\ UNCHANGED <<feed, inner, lock, GSTREAMER, nextSid, stop_in_start>>
    /\ UNCHANGED callVars
    /\ UNCHANGED sessVars
    /\ UNCHANGED guard

\* A period in which the appsink has no sample: no callback runs, and the
\* buffers have no timer or thread of their own, so only the clock moves.
\* (Tick_Fault: a timer that flushes an overdue buffer)
Tick_Fault ==
    /\ feed.kind # "none"
    /\ clock + feed.period <= MaxTime
    /\ clock' = clock + feed.period
    /\ IF clock' - cb.chunk_start >= cb.chunk_duration
       THEN LET r == [buf |-> audio_flush(cb, clock'), chunks |-> <<audio_chunk(cb)>>]
            IN Delivered(r) /\ Recorded([buffer |-> FALSE], r)
       ELSE UNCHANGED <<cb, out, ids, stream>>
    /\ UNCHANGED <<feed, inner, lock, GSTREAMER, nextSid, stop_in_start>>
    /\ UNCHANGED callVars
    /\ UNCHANGED sessVars
    /\ UNCHANGED guard
Tick ==
    /\ feed.kind # "none"
    /\ clock + feed.period <= MaxTime
    /\ clock' = clock + feed.period
    /\ UNCHANGED <<cb, out, ids, stream>>
    /\ UNCHANGED <<feed, inner, lock, GSTREAMER, nextSid, stop_in_start>>
    /\ UNCHANGED callVars
    /\ UNCHANGED sessVars
    /\ UNCHANGED guard

\* stop_capture for the observed buffer: teardown_pipeline sets the pipeline
\* to Null, after which no callback runs, and the buffer is dropped with
\* whatever accum holds; neither calls flush.
\* (DropChunkBuffer_Fault: the buffer is flushed before it is dropped)
DropChunkBuffer_Fault ==
    /\ feed.kind # "none"
    /\ LET r == [buf |-> NoChunkBuffer, chunks |-> <<audio_chunk(cb)>>]
       IN Delivered(r) /\ Recorded([buffer |-> FALSE], r)
    /\ feed' = NoFeed
    /\ UNCHANGED <<clock, inner, lock, GSTREAMER, nextSid, stop_in_start>>
    /\ UNCHANGED callVars
    /\ UNCHANGED sessVars
    /\ UNCHANGED guard
DropChunkBuffer ==
    /\ feed.kind # "none"
    /\ cb' = NoChunkBuffer
    /\ feed' = NoFeed
    /\ UNCHANGED <<out, ids, stream>>
    /\ UNCHANGED <<clock, inner, lock, GSTREAMER, nextSid, stop_in_start>>
    /\ UNCHANGED callVars
    /\ UNCHANGED sessVars
    /\ UNCHANGED guard

\* the buffer build_video_pipeline / build_*_audio_pipeline constructs from
\* the options of a start
build_chunk_buffer(k, o, sender, t) ==
    IF k = "video"
    THEN VideoChunkBuffer_new_with_sender(chunk_duration(o), o.debug_save, sender, t)
    ELSE AudioChunkBuffer_new_with_sender(k, chunk_duration(o), o.debug_save, sender, t)

\* ------------------------------------------------------------ specification
\* one step of a call of caller t
Lifecycle(t) ==
    \/ \E o \in OptionSet : StartCapture(t, o)
    \/ SpawnConsumer(t)
    \/ \E k \in Kinds : Build(t, k)
    \/ \E k \in Kinds : Start(t, k)
    \/ Store(t)
    \/ SetRunning(t)
    \/ Rollback(t)
    \/ StopCapture(t)
    \/ \E k \in Kinds : Teardown(t, k)
    \/ StopFinish(t)

\* Concurrent callers of the whole command surface. Sample deliveries are
\* left out: they read and write only buffer, queue and sent, which no
\* action of a caller reads, so they do not change what the callers can do.
Next ==
    \/ \E t \in Threads : Lifecycle(t)
    \/ \E t \in Threads : Status(t)
    \/ \E t \in Threads, o \in OptionSet : SetOptions(t, o)
    \/ \E s \in Sessions : ConsumerExit(s)

Spec == Init /\ [][Next]_vars

\* One caller issuing start and stop in sequence, with the pipelines'
\* streaming threads delivering samples and the consumer threads receiving.
\* The samples delivered here are empty: what a chunk carries does not
\* change how the channel passes it on.
NextChunks ==
    \/ Lifecycle(1)
    \/ \E s \in Sessions, k \in Kinds, e \in BOOLEAN : HandleSample(s, k, 0, e)
    \/ \E s \in Sessions : ConsumerRecv(s)
    \/ \E s \in Sessions : ConsumerExit(s)

SpecChunks == Init /\ [][NextChunks]_vars

\* One caller issuing start and stop in sequence while the streaming threads
\* run their callbacks step by step, so that a stop can find a callback
\* holding a buffer's mutex. A caller that can take a step takes one, and a
\* streaming thread inside a callback finishes it.
NextLocks ==
    \/ Lifecycle(1)
    \/ \E s \in Sessions, k \in Kinds : LockBuffer(s, k)
    \/ \E s \in Sessions, k \in Kinds, e \in BOOLEAN : HandleSampleLocked(s, k, e)

FairLocks ==
    /\ WF_vars(Lifecycle(1))
    /\ \A s \in Sessions, k \in Kinds :
           WF_vars(\E e \in BOOLEAN : HandleSampleLocked(s, k, e))

SpecLocks == Init /\ [][NextLocks]_vars /\ FairLocks

\* One chunk buffer of any kind, built from any of the options with any
\* sender, fed samples at a constant period from its construction on.
InitBuffer ==
    /\ ManagerInit
    /\ \E k \in Kinds, o \in OptionSet, p \in Periods, snd \in SenderSet :
           /\ feed = [kind |-> k, options |-> o, period |-> p]
           /\ cb = build_chunk_buffer(k, o, snd, 0)
    /\ clock = 0
    /\ out = NoChunk
    /\ ids = << >>
    /\ stream = NoStream

NextBuffer ==
    \/ \E smp \in SampleSet : NewSampleVideo(smp)
    \/ \E smp \in SampleSet : NewSampleAudio(smp)

SpecBuffer == InitBuffer /\ [][NextBuffer]_vars

\* One chunk buffer as in SpecBuffer, on a stream that may leave periods
\* without a sample and that a stop may end at any time, with the bytes of
\* every delivery and of every chunk kept.
NextStream ==
    \/ \E smp \in StreamSamples(Len(stream.delivered)) : PushVideo(smp)
    \/ \E smp \in StreamSamples(Len(stream.delivered)) : PushAudio(smp)
    \/ Tick
    \/ DropChunkBuffer

SpecStream == InitBuffer /\ [][NextStream]_vars

\* ---------------------------------------------------------------- helpers
\* a pipeline object that exists: constructed and not freed
Live(s, k) == pipeline[s][k] \in {"Null", "Playing"}
LiveSessions == {s \in Sessions : \E k \in Kinds : Live(s, k)}

\* the pipeline and chunk-buffer references a ManagerState holds
StoredRefs(st) ==
    {st[PipelineField[k]] : k \in Kinds} \cup {st[BufferField[k]] : k \in Kinds}
NothingStored(st) == StoredRefs(st) = {None}

\* callers inside start_capture, past its Idle check
InStart == {t \in Threads : pc[t] \in ConfigurePCs \cup {"set_running", "rollback"}}

\* the step in which caller t's stop_capture returns
StopReturns(t) ==
    \/ StopCapture(t) /\ pc'[t] = "idle"
    \/ StopFinish(t)

\* ------------------------------------------------------------------- claims

\* C1: never more than one live session: at most one session has pipelines
\* that exist, none exists or is stored in the manager while status is Idle,
\* and no stored pipeline is overwritten by another start.
C1_AtMostOneLiveSession ==
    /\ [](Cardinality(LiveSessions) <= 1)
    /\ [](inner.status = "Idle" => LiveSessions = {} /\ NothingStored(inner))
    /\ [][\A t \in Threads : Store(t) => NothingStored(inner)]_vars

\* C2: every change of status is Idle->Starting, Starting->Running,
\* Running->Stopping, Stopping->Idle or Starting->Idle.
LegalTransitions ==
    {<<"Idle", "Starting">>, <<"Starting", "Running">>, <<"Running", "Stopping">>,
     <<"Stopping", "Idle">>, <<"Starting", "Idle">>}
C2_OnlyLegalTransitions ==
    [][inner'.status # inner.status
         => <<inner.status, inner'.status>> \in LegalTransitions]_vars

\* C3: a start made while status is not Idle returns AlreadyActive and changes
\* nothing: the manager state, the pipelines, buffers, senders and consumers
\* are as before and the caller has not gone on to configure_pipelines.
C3_StartWhileActiveRejected ==
    [][\A t \in Threads, o \in OptionSet :
          (StartCapture(t, o) /\ inner.status # "Idle")
            => /\ ret' = Ret("start", "AlreadyActive")
               /\ pc'[t] = "idle"
               /\ UNCHANGED <<inner, pipeline, buffer, senders, consumer>>]_vars
C3_Witness ==
    /\ ret = Ret("start", "AlreadyActive")
    /\ inner.status = "Running"
    /\ inner.video_pipeline # None
    /\ pipeline[inner.video_pipeline]["video"] = "Playing"

\* C4: while no stop has acted on a start in progress, at most one caller is
\* past the Idle check of start_capture: of the starts racing from Idle one
\* goes on to build pipelines and the others return AlreadyActive.
C4_OneStartProceeds ==
    ~stop_in_start => Cardinality(InStart) <= 1
C4_Witness ==
    /\ ~stop_in_start
    /\ ret = Ret("start", "AlreadyActive")
    /\ \E t \in Threads : pc[t] \in {"build_video", "build_system_audio", "build_mic"}

\* C5: when a start that failed returns its error, status is Idle, none of
\* the pipelines of that attempt is playing and the manager stores no
\* pipeline or buffer of that attempt.
C5_RollbackComplete ==
    [][\A t \in Threads :
          (pc[t] = "rollback" /\ pc'[t] = "idle")
            => /\ inner'.status = "Idle"
               /\ \A k \in Kinds : pipeline'[sid[t]][k] # "Playing"
               /\ sid[t] \notin StoredRefs(inner')]_vars
C5_Witness ==
    /\ ret = Ret("start", "PipelineStartFailed")
    /\ inner.status = "Idle"
    /\ \E s \in Sessions :
          /\ pipeline[s]["video"] = "freed"
          /\ pipeline[s]["system_audio"] = "freed"
          /\ s \notin StoredRefs(inner)
          /\ inner.chunk_sender # s

\* C6: when a stop that tore a session down returns, the manager holds no
\* Sender and no Sender of the session's channel is alive.
C6_StopDropsSender ==
    [][\A t \in Threads :
          StopFinish(t)
            => /\ inner'.chunk_sender = None
               /\ \A s \in Sessions : s = inner.chunk_sender => senders'[s] = {}]_vars

\* C7: the manager starts Idle with nothing stored, and every stop that
\* returns leaves it Idle with nothing stored and no pipeline playing.
C7_StopLeavesIdle ==
    /\ inner.status = "Idle" /\ NothingStored(inner)
    /\ [][\A t \in Threads :
             StopReturns(t)
               => /\ inner'.status = "Idle"
                  /\ NothingStored(inner')
                  /\ \A s \in Sessions, k \in Kinds : pipeline'[s][k] # "Playing"]_vars

\* C8: stop in the Idle state returns Ok and changes no field of the manager
\* state; every stop returns Ok and leaves status Idle, so a second stop right
\* after it is the Idle case.
C8_StopIdempotent ==
    [][\A t \in Threads :
          /\ (StopCapture(t) /\ inner.status = "Idle")
               => /\ ret' = Ret("stop", "Ok")
                  /\ pc'[t] = "idle"
                  /\ UNCHANGED <<inner, lock, pipeline, buffer, senders>>
          /\ StopReturns(t)
               => ret' = Ret("stop", "Ok") /\ inner'.status = "Idle"]_vars
C8_Witness ==
    /\ ret = Ret("stop", "Ok")
    /\ nextSid = 1
    /\ inner = ManagerState_default

\* C9: set_options while Starting, Running or Stopping returns CaptureActive
\* and leaves the manager state as it was; while Idle it returns Ok, stores
\* its argument as the options and leaves status Idle.
C9_SetOptions ==
    [][\A t \in Threads, o \in OptionSet :
          SetOptions(t, o)
            => IF inner.status \in {"Starting", "Running", "Stopping"}
               THEN ret' = Ret("set_options", "CaptureActive") /\ inner' = inner
               ELSE /\ ret' = Ret("set_options", "Ok")
                    /\ inner' = [inner EXCEPT !.options = o]
                    /\ inner'.status = "Idle"]_vars
C9_Witness ==
    /\ ret = Ret("set_options", "CaptureActive")
    /\ inner.status \in {"Starting", "Running"}
    /\ inner.options # DefaultOptions

\* C10: the chunks sent into a channel are received once each and in send
\* order, and the consumer does not exit while a sent chunk is undelivered.
C10_ChunksDelivered ==
    \A s \in Sessions :
        /\ sent[s] = received[s] \o queue[s]
        /\ \A i, j \in 1..Len(received[s]) : i # j => received[s][i] # received[s][j]
        /\ consumer[s] = "exited" => received[s] = sent[s]
C10_Witness ==
    \E s \in Sessions :
        /\ consumer[s] = "exited"
        /\ Len(received[s]) = MaxChunks
        /\ pipeline[s]["video"] = "freed"

\* C15: no thread holds the manager lock while it constructs, starts or tears
\* down a pipeline: a caller inside configure_pipelines does not hold it, and
\* a caller at a teardown_pipeline call that has a pipeline to tear down does
\* not hold it.
C15_LockNotHeldAcrossPipelineWork ==
    \A t \in Threads :
        /\ pc[t] \in ConfigurePCs => lock # t
        /\ \A k \in Kinds :
               pc[t] = TeardownPC[k] /\ inner[PipelineField[k]] # None => lock # t

\* the chunk_consumer threads kept alive by a Sender: a thread whose channel
\* has lost every Sender only drains what is buffered and returns, and is
\* not counted
AliveConsumers == {s \in Sessions : consumer[s] = "running" /\ senders[s] # {}}

\* C17: at most one chunk consumer is alive at any moment, and while the
\* status is Running the live Senders of the stored channel are the manager's
\* (tx) and one clone for each stream buffer that was constructed.
C17_OneConsumerOneSenderSet ==
    /\ Cardinality(AliveConsumers) <= 1
    /\ inner.status = "Running" /\ inner.chunk_sender # None =>
           senders[inner.chunk_sender] =
               {"tx"} \cup {k \in Kinds : pipeline[inner.chunk_sender][k] # "none"}

\* the pipelines a start with options o constructs and activates, and the
\* kinds activated before kind k
Requested(o) == IF o.capture_mic THEN Kinds ELSE Kinds \ {"mic"}
ActivatedBefore(k) ==
    CASE k = "video" -> {}
      [] k = "system_audio" -> {"video"}
      [] k = "mic" -> {"video", "system_audio"}

\* C19: a pipeline is activated only by the start that owns it, when every
\* requested pipeline of that start is constructed, the kinds before it in
\* the order video, system_audio, mic are playing and the others are not;
\* the handles are stored only when every requested pipeline is playing; and
\* the status becomes Running only in the step of a start that has stored.
C19_ActivationOrder ==
    [][ /\ \A s \in Sessions, k \in Kinds :
               pipeline[s][k] # "Playing" /\ pipeline'[s][k] = "Playing" =>
                   \E t \in Threads :
                       /\ sid[t] = s
                       /\ k \in Requested(opts[t])
                       /\ \A j \in Requested(opts[t]) : pipeline[s][j] \in {"Null", "Playing"}
                       /\ \A j \in ActivatedBefore(k) : pipeline[s][j] = "Playing"
                       /\ \A j \in Kinds \ ActivatedBefore(k) : pipeline[s][j] # "Playing"
        /\ \A t \in Threads :
               pc[t] # "set_running" /\ pc'[t] = "set_running" =>
                   /\ \A j \in Requested(opts[t]) : pipeline[sid[t]][j] = "Playing"
                   /\ \A j \in Requested(opts[t]) : inner'[PipelineField[j]] = sid[t]
        /\ inner.status # "Running" /\ inner'.status = "Running" =>
               \E t \in Threads : pc[t] = "set_running" /\ ret' = Ret("start", "Ok")
      ]_vars

\* a start with the microphone requested has returned Ok with its three
\* pipelines playing and stored
C19_Witness ==
    /\ ret = Ret("start", "Ok")
    /\ inner.status = "Running"
    /\ inner.mic_pipeline # None
    /\ \A k \in Kinds : /\ inner[PipelineField[k]] = inner.mic_pipeline
                        /\ pipeline[inner.mic_pipeline][k] = "Playing"

\* C11: the ids of the chunks a buffer's flushes build are 0, 1, 2, ... in
\* the order of the flushes, whatever became of each chunk (sent, dropped by
\* a failed send, printed or discarded), and the next id is their number.
C11_IdsCountUp ==
    /\ \A i \in 1..Len(ids) : ids[i] = i - 1
    /\ cb.id_counter = Len(ids)

\* a second chunk was built after the send of every chunk failed
C11_Witness ==
    /\ Len(ids) >= 2
    /\ cb.sender = "Disconnected"
    /\ out.via = "dropped"
    /\ out.id = 1

\* the time between two flushes of a buffer of chunk duration d fed at
\* period p: the first multiple of p that is at least d
FlushInterval(p, d) == p * ((d + p - 1) \div p)

\* C12 (as stated): fed at a constant period over a span of T = clock with
\* chunk duration D, the number of chunks built differs from floor(T/D) by at
\* most 1.
C12_CountWithinOneOfQuotient ==
    LET n == Len(ids)
        q == clock \div cb.chunk_duration
    IN n - q <= 1 /\ q - n <= 1

\* C12 (amended): the number of chunks built is floor(T / I) for the flush
\* interval I = p * ceil(D/p); it never exceeds floor(T/D) and equals it when
\* the period divides the chunk duration.
C12_CountIsQuotientOfFlushInterval ==
    LET n == Len(ids)
        p == feed.period
        d == cb.chunk_duration
    IN /\ n = clock \div FlushInterval(p, d)
       /\ n <= clock \div d
       /\ d % p = 0 => n = clock \div d

\* six chunk durations have passed at a period that does not divide the
\* duration, and four chunks were built
C12_Witness ==
    /\ cb.chunk_duration % feed.period # 0
    /\ clock >= 6 * cb.chunk_duration
    /\ Len(ids) = 4

\* the step is a delivery whose handle_sample finds the chunk duration elapsed
FlushDue == clock' # clock /\ clock' - cb.chunk_start >= cb.chunk_duration

\* where a buffer with this sender hands a chunk
DispatchOf(b) ==
    CASE b.sender = "Open" -> "sent"
      [] b.sender = "Disconnected" -> "dropped"
      [] b.sender = "None" /\ b.label # "video" /\ b.debug_save -> "discarded"
      [] OTHER -> "printed"

\* C13: a delivery is never blocked by the buffer (its callback can run with
\* any sample, whatever the sender), and in every delivery that flushes, the
\* send succeeding, failing on a closed channel or there being no sender, the
\* flush completes: one chunk is handed over accordingly, accum is empty, the
\* frame counter is 0, and chunk_start and the wall-clock start are the
\* instant of the flush.
C13_FlushCompletesAndResets ==
    [][ /\ clock + feed.period <= MaxTime =>
               \A smp \in SampleSet :
                   ENABLED (NewSampleVideo(smp) \/ NewSampleAudio(smp))
        /\ FlushDue =>
               /\ Len(ids') = Len(ids) + 1
               /\ out'.via = DispatchOf(cb)
               /\ cb'.accum = << >>
               /\ cb'.frames = 0
               /\ cb'.chunk_start = clock'
               /\ cb'.start_ts_unix_nanos = unix_nanos(clock')
      ]_vars

\* a flush whose send failed on a closed channel has dropped a chunk with
\* bytes in it and left the buffer reset
C13_Witness ==
    /\ cb.sender = "Disconnected"
    /\ out.via = "dropped"
    /\ out.data_len > 0
    /\ clock > 0
    /\ cb.chunk_start = clock
    /\ cb.accum = << >>

\* whether the sample of this delivery, or for an audio buffer any sample
\* since the last flush, yielded metadata
ParsedInWindow(smp) ==
    IF feed.kind = "video"
    THEN VideoFrameMetadata_from_sample(smp).some
    ELSE cb.last_metadata.some \/ AudioFrameMetadata_from_sample(smp).some

\* C14: a delivery that does not flush only adds its bytes (and, for audio,
\* remembers whether metadata was parsed); every delivery that flushes builds
\* exactly one chunk and hands it over, with the buffer's next id, kind equal
\* to the stream's label, data_len equal to the bytes accumulated since the
\* last flush including this sample's (possibly 0), and null metadata when
\* nothing parseable was delivered.
C14_EveryFlushEmitsOneChunk ==
    [][ \A smp \in SampleSet :
            NewSampleVideo(smp) \/ NewSampleAudio(smp) =>
                IF FlushDue
                THEN /\ Len(ids') = Len(ids) + 1
                     /\ out'.via # "none"
                     /\ out'.id = cb.id_counter
                     /\ out'.kind = feed.kind
                     /\ out'.data_len = Len(cb.accum) + Len(sample_bytes(smp))
                     /\ ~ParsedInWindow(smp) => out'.metadata = JsonNull
                     /\ cb'.last_metadata = NoMeta
                ELSE /\ ids' = ids
                     /\ out' = out
                     /\ cb'.accum = cb.accum \o sample_bytes(smp)
                     /\ feed.kind # "video" =>
                            cb'.last_metadata.some = ParsedInWindow(smp)
      ]_vars

\* a mic buffer has sent a chunk of no bytes and null metadata
C14_Witness ==
    /\ feed.kind = "mic"
    /\ out.via = "sent"
    /\ out.kind = "mic"
    /\ out.data_len = 0
    /\ out.metadata = JsonNull

\* C18: the buffer's chunk duration, and the duration_ms of every chunk it
\* builds, is the larger of the chunk_duration_ms of the options of the start
\* and 1000; it is never below 1000; and a flush happens only in a delivery
\* at least 1000 ms after chunk_start.
C18_DurationFloor ==
    [][ LET d == IF feed.options.chunk_duration_ms > 1000
                 THEN feed.options.chunk_duration_ms ELSE 1000
        IN /\ cb.chunk_duration = d
           /\ cb'.chunk_duration = d
           /\ ids' # ids =>
                  /\ out'.duration_ms = d
                  /\ out'.duration_ms >= 1000
                  /\ clock' - cb.chunk_start >= 1000
      ]_vars

\* a buffer built from options asking for 500 ms has sent a chunk
C18_Witness ==
    /\ feed.options.chunk_duration_ms = 500
    /\ Len(ids) >= 1
    /\ out.via = "sent"
    /\ out.duration_ms = 1000

\* the frames AudioFrameMetadata::from_sample counts in a sample: size / bpf
\* when it parses, none otherwise
ParsedFrames(smp) ==
    IF AudioFrameMetadata_from_sample(smp).some
    THEN AudioFrameMetadata_from_sample(smp).frames ELSE 0

\* C20: the running frame counter of an audio buffer grows by the frames of
\* every parsed delivery, and the "frames" entry of the metadata of a chunk is
\* that counter at the flush: the sum of the frames of the parsed deliveries
\* since the previous flush.
C20_FramesIsRunningCount ==
    [][ \A smp \in SampleSet :
            NewSampleAudio(smp) =>
                IF FlushDue
                THEN ~out'.metadata.null =>
                         out'.metadata.frames = cb.frames + ParsedFrames(smp)
                ELSE cb'.frames = cb.frames + ParsedFrames(smp)
      ]_vars

\* C16: a chunk buffer of a running pipeline is written only by the thread
\* that holds its mutex, which it releases in the same step; no step of the
\* sample path changes the manager lock and no step that changes the manager
\* lock changes a buffer mutex; a callback that holds a buffer's mutex can
\* always run to its end, whoever holds the manager lock; and every
\* stop_capture that has begun its teardown returns.
C16_NoDeadlock ==
    /\ [][ /\ \A s \in Sessions, k \in Kinds :
                  /\ guard[s][k] = "held" => ENABLED HandleSampleLocked(s, k, FALSE)
                  /\ guard'[s][k] # guard[s][k] => lock' = lock
                  /\ pipeline'[s][k] = "Playing" /\ buffer'[s][k] # buffer[s][k] =>
                         /\ guard[s][k] = "held"
                         /\ guard'[s][k] = "free"
                         /\ lock' = lock
           /\ lock' # lock => guard' = guard
         ]_vars
    /\ \A t \in Threads : (pc[t] \in StopPCs) ~> (pc[t] = "idle")

\* a stop_capture holds the manager lock at the teardown of the video
\* pipeline while the streaming thread is inside its callback, holding the
\* video buffer's mutex
C16_Witness ==
    \E t \in Threads :
        /\ pc[t] = "teardown_video"
        /\ lock = t
        /\ inner.video_pipeline # None
        /\ guard[inner.video_pipeline]["video"] = "held"

\* the step in which caller t's start_capture passes the Idle check
StartPasses(t) == pc[t] = "idle" /\ pc'[t] = "spawn"

\* C24: a start that passes the Idle check stores its argument as the
\* options; a set_options while Idle stores its argument; no other step
\* changes the options, so they are the argument of the later of the two;
\* the return of a failed start leaves them as they are; and they change only
\* in steps taken while the status is Idle.
C24_OptionsFrame ==
    [][ /\ \A t \in Threads : StartPasses(t) => inner'.options = opts'[t]
        /\ \A t \in Threads, o \in OptionSet :
               SetOptions(t, o) /\ ~is_active(inner.status) => inner'.options = o
        /\ \A t \in Threads :
               pc[t] = "rollback" /\ pc'[t] = "idle" => inner'.options = inner.options
        /\ inner'.options # inner.options =>
               /\ inner.status = "Idle"
               /\ \/ \E t \in Threads : StartPasses(t)
                  \/ \E t \in Threads, o \in OptionSet : SetOptions(t, o)
      ]_vars

\* a start that passed the Idle check with options other than the default
\* has failed and returned, and its options are still stored
C24_Witness ==
    /\ ret.op = "start"
    /\ ret.val \in {"SpawnFailed", "MissingCapability", "PipelineStartFailed"}
    /\ inner.status = "Idle"
    /\ inner.options # DefaultOptions
    /\ \A t \in Threads : pc[t] = "idle"


\* ------------------------------------------------- the bytes of a stream
IsPrefix(a, b) == Len(a) <= Len(b) /\ SubSeq(b, 1, Len(a)) = a

\* C21: every chunk a flush builds has data_len equal to the length of its
\* data, and its data is exactly the bytes handle_sample appended since the
\* previous flush, or since construction when there was none; right after
\* the flush accum is empty.
C21_ChunkDataIsAccumulatedBytes ==
    [][ ids' # ids =>
          /\ out'.data_len = Len(out'.data)
          /\ out'.data = SubSeq(stream'.delivered, stream.flushed_at + 1,
                                Len(stream'.delivered))
          /\ cb'.accum = << >>
      ]_vars

\* a second or later chunk of several bytes has been built, and accum is empty
C21_Witness ==
    /\ cb.label # "none"
    /\ Len(ids) >= 2
    /\ out.data_len >= 2
    /\ out.data[1] > 1
    /\ cb.accum = << >>

\* C22: the data of the chunks of a stream, concatenated in the order of
\* their ids, is a prefix of the bytes delivered to handle_sample in the
\* order of delivery, the rest being what accum holds; when stop drops the
\* buffer nothing is flushed, so the bytes in accum are never emitted.
C22_EmittedIsPrefixOfDelivered ==
    [][ /\ IsPrefix(stream'.emitted, stream'.delivered)
        /\ cb'.label # "none" => stream'.emitted \o cb'.accum = stream'.delivered
        /\ cb.label # "none" /\ cb'.label = "none" =>
              /\ stream'.emitted = stream.emitted
              /\ ids' = ids
              /\ out' = out
      ]_vars

\* a stream was stopped after two chunks with bytes still in accum
C22_Witness ==
    /\ feed.kind = "none"
    /\ Len(ids) >= 2
    /\ stream.emitted # << >>
    /\ Len(stream.emitted) < Len(stream.delivered)

\* C23: a buffer builds a chunk only in a delivery, at most one per
\* delivery, and only when the time since chunk_start has reached the chunk
\* duration; a period without a sample builds none, however overdue the
\* buffer is, and the chunk ends with the bytes of the delivery that
\* triggered it.
C23_FlushOnlyInsideDueDelivery ==
    [][ /\ Len(ids') <= Len(ids) + 1
        /\ ids' # ids =>
              /\ clock' - cb.chunk_start >= cb.chunk_duration
              /\ \E smp \in StreamSamples(Len(stream.delivered)) :
                     /\ PushVideo(smp) \/ PushAudio(smp)
                     /\ out'.data = cb.accum \o sample_bytes(smp)
        /\ (cb' = cb /\ clock' # clock) => (ids' = ids /\ out' = out)
      ]_vars

\* a chunk was just built, twice the chunk duration or more after its
\* chunk_start although the stream's period is no longer than the duration,
\* and it ends with the last byte delivered
C23_Witness ==
    /\ Len(ids) >= 1
    /\ clock = cb.chunk_start
    /\ feed.period <= out.duration_ms
    /\ clock - out.start_ts_unix_nanos.read_at >= 2 * out.duration_ms
    /\ out.data # << >>
    /\ out.data[Len(out.data)] = Len(stream.delivered)
    /\ stream.delivered # << >>

====
